---- MODULE Spec2Model ----
(***************************************************************************)
(* A state-machine model of the xtrading_models data model: the Order      *)
(* hierarchy (order.py), BarData (bar.py) and Trade/OrderStatus (trade.py).*)
(*                                                                         *)
(* Order instances live in the sequence `orders`; an instance's identity   *)
(* is its index.  Python list objects live in the heap `lists`; an order's *)
(* `children` field holds the index of its list object.                    *)
(*                                                                         *)
(* The Order classes are pydantic models configured with                   *)
(* validate_assignment.  An attribute assignment on such a model validates *)
(* the new value, stores it in the instance, and only then runs the        *)
(* class's mode='after' model validators on the instance; a validator that *)
(* raises therefore reports an error with the new value already stored.    *)
(* During construction model_post_init runs after the fields are populated *)
(* and before the mode='after' model validators.                           *)
(*                                                                         *)
(* Callers are sequential except in SpecThreads, where threads run the     *)
(* steps of a constructor call interleaved; an instance a thread is still  *)
(* building lives in `threads` and enters `orders` when the call returns.  *)
(***************************************************************************)
EXTENDS Integers, Sequences, FiniteSets, TLC

VARIABLES
    orders,         \* the Order instances constructed so far
    lists,          \* the heap of Python list objects (children lists)
    next_order_id,  \* the class attribute Order._next_order_id
    given,          \* history: the orderId argument each instance was constructed with
    result,         \* the last operation on orders and the error it raised
    bar,            \* the last BarData operation, its instance and its error
    trade,          \* the Trade instance, None before it is constructed
    threads,        \* each thread's position in a constructor call and its locals
    began           \* history: how many instances existed when each thread-built one was begun

vars == <<orders, lists, next_order_id, given, result, bar, trade, threads, began>>

(***************************************************************************)
(* Bounds of the model.                                                    *)
(***************************************************************************)
MaxOrders == 3
MaxNodes == 2
MaxChildren == 2
MaxPrice == 3
MaxShares == 2
MaxFills == 1
MaxThreads == 2
MaxFamily == 3

(***************************************************************************)
(* Optional values: None, or a one-element tuple holding the value.        *)
(***************************************************************************)
None == <<>>
Some(v) == <<v>>

NoError == ""
TrailingError == "Exactly one of trailingDistance or trailingPercent must be specified"

(***************************************************************************)
(* order.py                                                                *)
(***************************************************************************)
UNSET_INTEGER == 2147483647

PlainClasses == {"Order", "LimitOrder", "MarketOrder", "StopOrder", "StopLimitOrder"}
\* TrailingOrder and its subclasses: the classes that carry the trailing
\* fields and validate_trailing_params.  TrailingOrder is itself constructible.
TrailingClasses == {"TrailingOrder", "TrailingStopMarket", "TrailingStopLimit"}
Classes == PlainClasses \cup TrailingClasses

\* The orderType each constructor passes to Order.__init__ (no orderType
\* keyword given by the caller).  TrailingOrder has no token of its own:
\* orderType is a required parameter of its __init__.
OrderTypeOf(cls) ==
    CASE cls = "Order" -> ""
      [] cls = "LimitOrder" -> "LMT"
      [] cls = "MarketOrder" -> "MKT"
      [] cls = "StopOrder" -> "STP"
      [] cls = "StopLimitOrder" -> "STP LMT"
      [] cls = "TrailingStopMarket" -> "TRAIL"
      [] cls = "TrailingStopLimit" -> "TRAIL LIMIT"

\* Inputs of the model: the orderId argument (0, the default, means "not
\* supplied"; a negative id; an id in the range the counter hands out) and
\* the values given for trailingDistance / trailingPercent.
ExplicitIds == {0 - 1, 0, 1}
TrailInputs == {None, Some(2)}

\* The number of entries held by all children lists together.
RECURSIVE TotalLen(_)
TotalLen(h) == IF h = <<>> THEN 0 ELSE Len(Head(h)) + TotalLen(Tail(h))

\* Field(default_factory=list): the index of a fresh list object.
\* (DefaultFactoryShared: one list object shared as the default.)
DefaultFactoryShared(heap) == 1
default_factory(heap) == Len(heap) + 1

\* TrailingOrder.validate_trailing_params: TRUE when the validator returns,
\* FALSE when it raises.
\* (ValidateTrailingRejectsOnlyNeither: the check without its second line.)
ValidateTrailingRejectsOnlyNeither(o) ==
    ~(o.trailingDistance = None /\ o.trailingPercent = None)
validate_trailing_params(o) ==
    ~(  (o.trailingDistance = None /\ o.trailingPercent = None)
     \/ (o.trailingDistance # None /\ o.trailingPercent # None))

\* The mode='after' model validators of the instance's class.
AfterValidators(o) ==
    IF o.cls \in TrailingClasses /\ ~validate_trailing_params(o)
    THEN TrailingError ELSE NoError

\* model_config validate_assignment: `o.f = v`.  The value is stored, then
\* the after-validators run on the instance.
SetAttr(o, f, v) ==
    LET n == [o EXCEPT ![f] = v]
    IN  [obj |-> n, err |-> AfterValidators(n)]

\* Order.model_post_init on instance o with the class counter at `next`.  The
\* assignment to self.orderId is a validated assignment; when it raises, the
\* increment is not reached.
\* (PostInitNoIncrement: the method without its increment.)
PostInitNoIncrement(o, next) ==
    IF o.orderId = 0
    THEN [obj |-> SetAttr(o, "orderId", next).obj, next |-> next,
          err |-> SetAttr(o, "orderId", next).err]
    ELSE [obj |-> o, next |-> next, err |-> NoError]
model_post_init(o, next) ==
    IF o.orderId = 0
    THEN LET a == SetAttr(o, "orderId", next)
         IN  IF a.err # NoError
             THEN [obj |-> a.obj, next |-> next, err |-> a.err]
             ELSE [obj |-> a.obj, next |-> next + 1, err |-> NoError]
    ELSE [obj |-> o, next |-> next, err |-> NoError]

\* The keyword arguments of a constructor call that the model follows.  Kw
\* is the call that gives a quantity of 100 and no orderType keyword.
Kw(oid, td, tp) ==
    [orderId |-> oid,
     totalQuantity |-> 100,
     orderType |-> None,
     trailingDistance |-> td,
     trailingPercent |-> tp]

\* The classes whose __init__ passes orderType=... next to **kwargs: an
\* orderType keyword from the caller is a duplicate keyword argument there.
\* Order takes it as a field value; StopOrder keeps it (kwargs.setdefault).
\* Args is the same call for class cls; a call of TrailingOrder has to give
\* the orderType, here 'TRAIL'.
Args(cls, oid, td, tp) ==
    IF cls = "TrailingOrder"
    THEN [Kw(oid, td, tp) EXCEPT !.orderType = Some("TRAIL")]
    ELSE Kw(oid, td, tp)

PassesOrderType ==
    {"LimitOrder", "MarketOrder", "StopLimitOrder", "TrailingStopMarket", "TrailingStopLimit"}
KeywordError == "got multiple values for keyword argument 'orderType'"
MissingError == "missing 1 required positional argument: 'orderType'"

\* The fields of a new instance once the keyword arguments are validated.
\* TrailingOrder.__init__ hands stopPrice=0.0 to StopOrder.__init__, which
\* passes it on as price: the stopPrice field keeps its default.
FieldsKw(cls, kw, lid) ==
    [cls |-> cls,
     orderId |-> kw.orderId,
     parentId |-> UNSET_INTEGER,
     totalQuantity |-> kw.totalQuantity,
     orderType |-> IF kw.orderType = None THEN OrderTypeOf(cls) ELSE kw.orderType[1],
     children |-> lid,
     trailingDistance |-> kw.trailingDistance,
     trailingPercent |-> kw.trailingPercent,
     stopPrice |-> None,
     extremePrice |-> None]

Fields(cls, oid, td, tp, lid) == FieldsKw(cls, Args(cls, oid, td, tp), lid)

\* cls(..., **kw): the class's __init__ chain (a TypeError there leaves no
\* instance), then BaseModel.__init__ as the constructors reach it: populate
\* the fields, run model_post_init, then the after-validators.
NewOrderKw(cls, kw, lid, next) ==
    IF cls \in PassesOrderType /\ kw.orderType # None
    THEN [obj |-> None, next |-> next, err |-> KeywordError]
    ELSE IF cls = "TrailingOrder" /\ kw.orderType = None
    THEN [obj |-> None, next |-> next, err |-> MissingError]
    ELSE LET p == model_post_init(FieldsKw(cls, kw, lid), next)
         IN  [obj |-> p.obj,
              next |-> p.next,
              err |-> IF p.err # NoError THEN p.err ELSE AfterValidators(p.obj)]

NewOrder(cls, oid, td, tp, lid, next) ==
    NewOrderKw(cls, Args(cls, oid, td, tp), lid, next)

ConstructKw(cls, kw) ==
    /\ LET lid == default_factory(lists)
           n == NewOrderKw(cls, kw, lid, next_order_id)
       IN  /\ orders' = IF n.err = NoError THEN Append(orders, n.obj) ELSE orders
           /\ lists' = IF n.err = NoError /\ lid > Len(lists)
                       THEN Append(lists, <<>>) ELSE lists
           /\ next_order_id' = n.next
           /\ given' = IF n.err = NoError THEN Append(given, kw.orderId) ELSE given
           /\ result' = [op |-> "construct", err |-> n.err]
    /\ UNCHANGED <<bar, trade, threads, began>>

Construct(cls, oid, td, tp) == ConstructKw(cls, Args(cls, oid, td, tp))

\* LimitOrder(...), MarketOrder(...), StopOrder(...), StopLimitOrder(...),
\* Order(...): classes without trailing fields.
ConstructPlain ==
    \E cls \in PlainClasses, oid \in ExplicitIds :
        /\ Len(orders) < MaxOrders
        /\ Construct(cls, oid, None, None)

\* TrailingOrder('TRAIL', ...), TrailingStopMarket(...), TrailingStopLimit(...).
ConstructTrailing ==
    \E cls \in TrailingClasses, oid \in ExplicitIds, td \in TrailInputs, tp \in TrailInputs :
        /\ Len(orders) < MaxOrders
        /\ Construct(cls, oid, td, tp)

\* `orders[i].f = v` by the caller.
Assign(i, f, v) ==
    LET a == SetAttr(orders[i], f, v)
    IN  /\ orders' = [orders EXCEPT ![i] = a.obj]
        /\ result' = [op |-> "assign", err |-> a.err]
        /\ UNCHANGED <<lists, next_order_id, given, bar, trade, threads, began>>

AssignOrderId ==
    \E i \in 1 .. Len(orders), v \in ExplicitIds :
        Assign(i, "orderId", v)

AssignTrailingDistance ==
    \E i \in 1 .. Len(orders), v \in TrailInputs :
        /\ orders[i].cls \in TrailingClasses
        /\ Assign(i, "trailingDistance", v)

AssignTrailingPercent ==
    \E i \in 1 .. Len(orders), v \in TrailInputs :
        /\ orders[i].cls \in TrailingClasses
        /\ Assign(i, "trailingPercent", v)

\* `orders[i].orderType = v` by the caller: orderType is a str field.
TypeInputs == {"MKT", "LMT"}

AssignOrderType ==
    \E i \in 1 .. Len(orders), v \in TypeInputs :
        Assign(i, "orderType", v)

\* `orders[i].stopPrice = v` and `orders[i].extremePrice = v` by the engine
\* that tracks a trailing order: Optional[float] fields, assigned under
\* validate_assignment as any other attribute.
PriceInputs == {Some(98), Some(100)}

AssignStopPrice ==
    \E i \in 1 .. Len(orders), v \in PriceInputs :
        /\ orders[i].cls \in TrailingClasses
        /\ Assign(i, "stopPrice", v)

AssignExtremePrice ==
    \E i \in 1 .. Len(orders), v \in PriceInputs :
        /\ orders[i].cls \in TrailingClasses
        /\ Assign(i, "extremePrice", v)

\* Order.add_child: orders[p].add_child(orders[c]).  The assignment to
\* child.parentId is validated as any assignment; when it raises, the append
\* is not reached.
add_child(p, c) ==
    /\ TotalLen(lists) < MaxChildren
    /\ LET a == SetAttr(orders[c], "parentId", orders[p].orderId)
       IN  /\ orders' = [orders EXCEPT ![c] = a.obj]
           /\ lists' = IF a.err = NoError
                       THEN [lists EXCEPT ![orders[p].children] = Append(@, c)]
                       ELSE lists
           /\ result' = [op |-> "add_child", err |-> a.err]
    /\ UNCHANGED <<next_order_id, given, bar, trade, threads, began>>

AddChild ==
    \E p \in 1 .. Len(orders), c \in 1 .. Len(orders) :
        add_child(p, c)

\* Constructor calls made by concurrent threads, orderId not given.  A
\* thread can be preempted between any two steps of model_post_init: the read
\* of Order._next_order_id that is assigned to self.orderId, and the load and
\* the store that make up `Order._next_order_id += 1`.
Threads == 1 .. MaxThreads

Idle == [pc |-> "idle", obj |-> None, loaded |-> 0, began |-> 0]

Busy == {t \in Threads : threads[t].pc # "idle"}

\* Order(...): BaseModel.__init__ populates the fields of the new instance.
Begin(t) ==
    /\ threads[t].pc = "idle"
    /\ Len(orders) + Cardinality(Busy) < MaxOrders
    /\ LET lid == default_factory(lists)
       IN  /\ threads' = [threads EXCEPT ![t] =
                             [pc |-> "init",
                              obj |-> Some(Fields("Order", 0, None, None, lid)),
                              loaded |-> 0,
                              began |-> Len(orders)]]
           /\ lists' = Append(lists, <<>>)
    /\ UNCHANGED <<orders, next_order_id, given, result, bar, trade, began>>

\* if self.orderId == 0: self.orderId = Order._next_order_id
ReadCounter(t) ==
    /\ threads[t].pc = "init"
    /\ threads' = [threads EXCEPT ![t].pc = "assigned",
                                  ![t].obj = Some(SetAttr(threads[t].obj[1], "orderId",
                                                          next_order_id).obj)]
    /\ UNCHANGED <<orders, lists, next_order_id, given, result, bar, trade, began>>

\* Order._next_order_id += 1, first half: the attribute is loaded.
LoadCounter(t) ==
    /\ threads[t].pc = "assigned"
    /\ threads' = [threads EXCEPT ![t].pc = "loaded", ![t].loaded = next_order_id]
    /\ UNCHANGED <<orders, lists, next_order_id, given, result, bar, trade, began>>

\* Order._next_order_id += 1, second half: the sum is stored; the
\* constructor then returns the instance.
\* (StoreLoadedValue: the loaded value stored back without the addition.)
StoreLoadedValue(loaded) == loaded
IncrementedValue(loaded) == loaded + 1

StoreCounter(t) ==
    /\ threads[t].pc = "loaded"
    /\ next_order_id' = IncrementedValue(threads[t].loaded)
    /\ orders' = Append(orders, threads[t].obj[1])
    /\ given' = Append(given, 0)
    /\ began' = Append(began, threads[t].began)
    /\ result' = [op |-> "construct", err |-> NoError]
    /\ threads' = [threads EXCEPT ![t] = Idle]
    /\ UNCHANGED <<lists, bar, trade>>

NoResult == [op |-> "none", err |-> NoError]

(***************************************************************************)
(* bar.py                                                                  *)
(***************************************************************************)
\* Python floats: a number, or NaN, which compares false with everything.
Num(n) == [nan |-> FALSE, v |-> n]
NaN == [nan |-> TRUE, v |-> 0]
Floats == {Num(n) : n \in 0 .. MaxPrice} \cup {NaN}

\* Python's < and > on floats, and >= and <= as the specification uses them.
FloatLt(a, b) == ~a.nan /\ ~b.nan /\ a.v < b.v
FloatGt(a, b) == ~a.nan /\ ~b.nan /\ a.v > b.v
FloatGe(a, b) == ~a.nan /\ ~b.nan /\ a.v >= b.v
FloatLe(a, b) == ~a.nan /\ ~b.nan /\ a.v <= b.v

\* The date argument: a datetime, or None.
Dates == {None, Some(20240115)}

\* BarData.validate_ohlc: the message of the ValueError it raises (the
\* relationship and its two values), or <<>> when it returns.
validate_ohlc(b) ==
    IF FloatLt(b.high, b.low) THEN <<"High", b.high, ">=", "Low", b.low>>
    ELSE IF FloatLt(b.high, b.open) THEN <<"High", b.high, ">=", "Open", b.open>>
    ELSE IF FloatLt(b.high, b.close) THEN <<"High", b.high, ">=", "Close", b.close>>
    ELSE IF FloatGt(b.low, b.open) THEN <<"Low", b.low, "<=", "Open", b.open>>
    ELSE IF FloatGt(b.low, b.close) THEN <<"Low", b.low, "<=", "Close", b.close>>
    ELSE <<>>

\* BarData(date=d, open=o, high=h, low=l, close=c): the date field is
\* validated first (a missing or None date is rejected), then validate_ohlc
\* runs on the populated instance.
NewBarData(d, o, h, l, c) ==
    LET b == [date |-> d, open |-> o, high |-> h, low |-> l, close |-> c]
        e == IF d = None THEN <<"date">> ELSE validate_ohlc(b)
    IN  [op |-> "construct",
         args |-> b,
         obj |-> IF e = <<>> THEN Some(b) ELSE None,
         err |-> e]

ConstructBar ==
    /\ \E d \in Dates, o \in Floats, h \in Floats, l \in Floats, c \in Floats :
           bar' = NewBarData(d, o, h, l, c)
    /\ UNCHANGED <<orders, lists, next_order_id, given, result, trade, threads, began>>

\* `bar.f = v` by the caller, f one of open/high/low/close: BarData does not
\* set validate_assignment and is not frozen, so the value is stored and no
\* validator runs.
BarFields == {"open", "high", "low", "close"}

AssignBar ==
    /\ bar.obj # None
    /\ \E f \in BarFields, v \in Floats :
           bar' = [op |-> "assign",
                   args |-> None,
                   obj |-> Some([bar.obj[1] EXCEPT ![f] = v]),
                   err |-> <<>>]
    /\ UNCHANGED <<orders, lists, next_order_id, given, result, trade, threads, began>>

NoBar == [op |-> "none", args |-> None, obj |-> None, err |-> <<>>]

(***************************************************************************)
(* trade.py                                                                *)
(***************************************************************************)
PendingSubmit == "PendingSubmit"
Submitted == "Submitted"
Filled == "Filled"
Cancelled == "Cancelled"
Inactive == "Inactive"

\* (DoneStatesWithInactive: Inactive counted as done.)
DoneStatesWithInactive == {"Filled", "Cancelled", "Inactive"}
DoneStates == {"Filled", "Cancelled"}
ActiveStates == {"PendingSubmit", "Submitted"}

FiveStatuses == {PendingSubmit, Submitted, Filled, Cancelled, Inactive}

\* OrderStatus.status is a plain str: any string is stored.  "PreSubmitted"
\* stands for the strings outside the five named ones.
StatusInputs == FiveStatuses \cup {"PreSubmitted"}

\* is_done computed from the fills as well as from the status.
IsDoneOrHasFills(t) == t.status \in DoneStates \/ Len(t.fills) > 0
is_done(t) == t.status \in DoneStates
is_active(t) == t.status \in ActiveStates

\* Trade(order=..., orderStatus=OrderStatus(status=s, remaining=r)).  The
\* field `prev` is history: the status the last assignment replaced.
NewTrade ==
    /\ trade = None
    /\ \E s \in StatusInputs, r \in 0 .. MaxShares :
           trade' = Some([status |-> s, filled |-> 0, remaining |-> r,
                          fills |-> <<>>, prev |-> None])
    /\ UNCHANGED <<orders, lists, next_order_id, given, result, bar, threads, began>>

\* trade.orderStatus.status = s: a dataclass attribute, stored as it is.
AssignStatus(s) ==
    /\ trade # None
    /\ trade' = Some([trade[1] EXCEPT !.status = s, !.prev = Some(trade[1].status)])
    /\ UNCHANGED <<orders, lists, next_order_id, given, result, bar, threads, began>>

SetStatus ==
    \E s \in StatusInputs : AssignStatus(s)

\* trade.orderStatus.filled = v
SetFilled ==
    /\ trade # None
    /\ \E v \in 0 .. MaxShares :
           trade' = Some([trade[1] EXCEPT !.filled = v])
    /\ UNCHANGED <<orders, lists, next_order_id, given, result, bar, threads, began>>

\* trade.orderStatus.remaining = v
SetRemaining ==
    /\ trade # None
    /\ \E v \in 0 .. MaxShares :
           trade' = Some([trade[1] EXCEPT !.remaining = v])
    /\ UNCHANGED <<orders, lists, next_order_id, given, result, bar, threads, began>>

\* trade.fills.append(fill), the fill recorded by its execution's shares.
AppendFill ==
    /\ trade # None
    /\ Len(trade[1].fills) < MaxFills
    /\ \E n \in 1 .. MaxShares :
           trade' = Some([trade[1] EXCEPT !.fills = Append(@, n)])
    /\ UNCHANGED <<orders, lists, next_order_id, given, result, bar, threads, began>>

(***************************************************************************)
(* Specifications                                                          *)
(***************************************************************************)
Init ==
    /\ orders = <<>>
    /\ lists = <<>>
    /\ next_order_id = 1
    /\ given = <<>>
    /\ result = NoResult
    /\ bar = NoBar
    /\ trade = None
    /\ threads = [t \in Threads |-> Idle]
    /\ began = <<>>

\* Callers that only construct orders.
Next ==
    \/ ConstructPlain
    \/ ConstructTrailing

Spec == Init /\ [][Next]_vars

\* Callers that only construct trailing orders.
NextTrailingConstruct == ConstructTrailing

SpecTrailingConstruct == Init /\ [][NextTrailingConstruct]_vars

\* Callers that construct orders and assign to their attributes.
ConstructAny ==
    \E cls \in Classes, oid \in ExplicitIds, td \in TrailInputs, tp \in TrailInputs :
        /\ cls \in PlainClasses => td = None /\ tp = None
        /\ Len(orders) < MaxNodes
        /\ Construct(cls, oid, td, tp)

NextAssign ==
    \/ ConstructAny
    \/ AssignOrderId
    \/ AssignTrailingDistance
    \/ AssignTrailingPercent

SpecAssign == Init /\ [][NextAssign]_vars

\* Callers that build parent/child links between auto-numbered orders.
TreeClasses == {"Order", "TrailingStopMarket"}

ConstructNode ==
    \E cls \in TreeClasses, td \in TrailInputs :
        /\ cls \in PlainClasses => td = None
        /\ Len(orders) < MaxNodes
        /\ Construct(cls, 0, td, None)

NextTree ==
    \/ ConstructNode
    \/ AssignTrailingPercent
    \/ AddChild

SpecTree == Init /\ [][NextTree]_vars

\* Callers that link a family of auto-numbered orders: plain orders and at
\* most one trailing order, which can be left invalid by an assignment.
ConstructMember ==
    \E cls \in TreeClasses :
        /\ cls \in TrailingClasses =>
               \A i \in 1 .. Len(orders) : orders[i].cls \notin TrailingClasses
        /\ Len(orders) < MaxFamily
        /\ Construct(cls, 0, IF cls \in TrailingClasses THEN Some(2) ELSE None, None)

NextFamily ==
    \/ ConstructMember
    \/ AssignTrailingPercent
    \/ AddChild

SpecFamily == Init /\ [][NextFamily]_vars

\* Callers that choose the quantity: totalQuantity is a float field with
\* default 0.0 and no constraint; negative, zero and positive are given.
QuantityInputs == {0 - 1, 0, 100}

ConstructQuantity ==
    \E cls \in Classes, q \in QuantityInputs, td \in TrailInputs :
        /\ cls \in PlainClasses => td = None
        /\ Len(orders) < MaxNodes
        /\ ConstructKw(cls, [Args(cls, 0, td, None) EXCEPT !.totalQuantity = q])

NextQuantity == ConstructQuantity

SpecQuantity == Init /\ [][NextQuantity]_vars

\* Callers that pass an orderType keyword to the constructors (for
\* TrailingOrder: that give or omit its orderType argument) and assign to
\* orderType afterwards.
ConstructTyped ==
    \E cls \in Classes, ot \in {None} \cup {Some(v) : v \in TypeInputs} :
        /\ Len(orders) < MaxNodes
        /\ ConstructKw(cls, [Kw(0, IF cls \in TrailingClasses THEN Some(2) ELSE None, None)
                                 EXCEPT !.orderType = ot])

NextType ==
    \/ ConstructTyped
    \/ AssignOrderType

SpecType == Init /\ [][NextType]_vars

\* An engine that constructs trailing orders and tracks their prices.
ConstructTrail ==
    \E cls \in TrailingClasses, td \in TrailInputs :
        /\ Len(orders) < MaxNodes
        /\ Construct(cls, 0, td, None)

NextTrail ==
    \/ ConstructTrail
    \/ AssignTrailingPercent
    \/ AssignStopPrice
    \/ AssignExtremePrice

SpecTrail == Init /\ [][NextTrail]_vars

\* Threads constructing orders concurrently.
NextThreads ==
    \E t \in Threads :
        \/ Begin(t)
        \/ ReadCounter(t)
        \/ LoadCounter(t)
        \/ StoreCounter(t)

SpecThreads == Init /\ [][NextThreads]_vars

\* A market-data feed constructing bars.
NextBar == ConstructBar

SpecBar == Init /\ [][NextBar]_vars

\* A consumer that constructs bars and assigns to their price fields.
NextBarAssign ==
    \/ ConstructBar
    \/ AssignBar

SpecBarAssign == Init /\ [][NextBarAssign]_vars

\* An engine driving one trade.
NextTrade ==
    \/ NewTrade
    \/ SetStatus
    \/ SetFilled
    \/ SetRemaining
    \/ AppendFill

SpecTrade == Init /\ [][NextTrade]_vars

(***************************************************************************)
(* Claims                                                                  *)
(***************************************************************************)
ExactlyOneTrailing(o) ==
    (o.trailingDistance = None) # (o.trailingPercent = None)

\* C1: constructing a TrailingStopMarket or TrailingStopLimit with both or
\* neither of trailingDistance/trailingPercent raises the "Exactly one..."
\* error and produces no instance; with exactly one of them it succeeds, the
\* new instance holds the given value and the other field is None.
C1_TrailingConstruction ==
    [][\A cls \in TrailingClasses, oid \in ExplicitIds,
          td \in TrailInputs, tp \in TrailInputs :
           (Len(orders) < MaxOrders /\ Construct(cls, oid, td, tp)) =>
               IF (td = None) = (tp = None)
               THEN /\ result'.err = TrailingError
                    /\ orders' = orders
                    /\ lists' = lists
               ELSE /\ result'.err = NoError
                    /\ Len(orders') = Len(orders) + 1
                    /\ orders'[Len(orders')].cls = cls
                    /\ orders'[Len(orders')].trailingDistance = td
                    /\ orders'[Len(orders')].trailingPercent = tp
                    /\ \A i \in 1 .. Len(orders) : orders'[i] = orders[i]]_vars

\* C1 witness: a trailing construction has just been rejected while an
\* instance built from trailingDistance alone and one built from
\* trailingPercent alone exist.
C1_Witness ==
    /\ result.op = "construct"
    /\ result.err = TrailingError
    /\ \E i \in 1 .. Len(orders) :
           /\ orders[i].cls = "TrailingStopMarket"
           /\ orders[i].trailingDistance = Some(2)
           /\ orders[i].trailingPercent = None
    /\ \E i \in 1 .. Len(orders) :
           /\ orders[i].cls = "TrailingStopLimit"
           /\ orders[i].trailingDistance = None
           /\ orders[i].trailingPercent = Some(2)

\* C2: in every reachable state every trailing order has exactly one of
\* trailingDistance/trailingPercent set; an assignment that would break this
\* does not leave the order in the violating state.
C2_ExactlyOneAfterAssignments ==
    \A i \in 1 .. Len(orders) :
        orders[i].cls \in TrailingClasses => ExactlyOneTrailing(orders[i])

\* The five OHLC relations, with >= and <= as Python evaluates them.
OhlcRelations(b) ==
    /\ FloatGe(b.high, b.low)
    /\ FloatGe(b.high, b.open)
    /\ FloatGe(b.high, b.close)
    /\ FloatLe(b.low, b.open)
    /\ FloatLe(b.low, b.close)

\* C3: a BarData construction (given a date) succeeds exactly when
\* high >= low, high >= open, high >= close, low <= open and low <= close all
\* hold, and a violated relation is reported with its name and two values.
C3_BarConstructionIffRelations ==
    (bar.op = "construct" /\ bar.args.date # None) =>
        /\ (bar.obj # None) <=> OhlcRelations(bar.args)
        /\ bar.obj # None => bar.obj = Some(bar.args) /\ bar.err = <<>>
        /\ bar.obj = None =>
               bar.err \in
                   {<<"High", bar.args.high, ">=", "Low", bar.args.low>>,
                    <<"High", bar.args.high, ">=", "Open", bar.args.open>>,
                    <<"High", bar.args.high, ">=", "Close", bar.args.close>>,
                    <<"Low", bar.args.low, "<=", "Open", bar.args.open>>,
                    <<"Low", bar.args.low, "<=", "Close", bar.args.close>>}

\* C4: every constructed order, whether its id was auto-assigned or given by
\* the caller, has orderId > 0 and an orderId greater than every id that was
\* auto-assigned before it.
C4_IdsPositiveAndIncreasing ==
    \A j \in 1 .. Len(orders) :
        /\ orders[j].orderId > 0
        /\ \A i \in 1 .. j - 1 :
               given[i] = 0 => orders[j].orderId > orders[i].orderId

\* C5: after any sequence of constructions no two distinct instances have
\* the same orderId.
C5_IdsUnique ==
    \A i \in 1 .. Len(orders), j \in 1 .. Len(orders) :
        i # j => orders[i].orderId # orders[j].orderId

\* The instances among the first i that were constructed without an id.
AutoUpTo(i) == {j \in 1 .. i : given[j] = 0}

\* C6: the counter starts at 1 and is shared by all classes; the k-th order
\* constructed without an explicit id receives id k whatever its class, and
\* a construction with an explicit non-zero id keeps that id and leaves the
\* counter unchanged.
C6_CounterSemantics ==
    /\ next_order_id = 1 + Cardinality(AutoUpTo(Len(orders)))
    /\ \A i \in 1 .. Len(orders) :
           orders[i].orderId =
               IF given[i] = 0 THEN Cardinality(AutoUpTo(i)) ELSE given[i]

\* C6 witness: two auto-numbered orders of different classes with an
\* explicitly numbered order constructed between them; the counter stands
\* at 3.
C6_Witness ==
    /\ Len(orders) = 3
    /\ given = <<0, 0 - 1, 0>>
    /\ orders[1].cls = "TrailingStopLimit"
    /\ orders[1].orderId = 1
    /\ orders[2].orderId = 0 - 1
    /\ orders[3].cls = "MarketOrder"
    /\ orders[3].orderId = 2
    /\ next_order_id = 3

\* C7: once an order is constructed no operation changes its orderId.
C7_OrderIdNeverChanges ==
    [][\A i \in 1 .. Len(orders) : orders'[i].orderId = orders[i].orderId]_vars

\* C8: add_child(parent, child) sets child.parentId to parent.orderId and
\* appends child at the end of parent.children, keeping the earlier entries.
C8_AddChildSetsAndAppends ==
    [][\A p \in 1 .. Len(orders), c \in 1 .. Len(orders) :
           add_child(p, c) =>
               /\ orders'[c].parentId = orders[p].orderId
               /\ lists'[orders'[p].children] =
                      Append(lists[orders[p].children], c)]_vars

\* C9: add_child(parent, child) changes only parent.children and
\* child.parentId: the child's parentId becomes parent.orderId, every other
\* field of every order and every other order's children are unchanged, so
\* an earlier parent still lists the child.
C9_AddChildFrame ==
    [][\A p \in 1 .. Len(orders), c \in 1 .. Len(orders) :
           add_child(p, c) =>
               /\ Len(orders') = Len(orders)
               /\ orders'[c] = [orders[c] EXCEPT !.parentId = orders[p].orderId]
               /\ \A i \in 1 .. Len(orders) :
                      /\ i # c => orders'[i] = orders[i]
                      /\ i # p => lists'[orders'[i].children] = lists[orders[i].children]
               /\ next_order_id' = next_order_id]_vars

\* C9 witness: three distinct orders; the child was added to one parent and
\* then to the other: its parentId is the second parent's id, the first
\* parent still lists it, and neither parent has a parent.
C9_Witness ==
    /\ result.op = "add_child"
    /\ result.err = NoError
    /\ \E p1 \in 1 .. Len(orders), p2 \in 1 .. Len(orders), c \in 1 .. Len(orders) :
           /\ p1 # p2
           /\ p1 # c
           /\ p2 # c
           /\ orders[p1].parentId = UNSET_INTEGER
           /\ orders[p2].parentId = UNSET_INTEGER
           /\ lists[orders[p1].children] = <<c>>
           /\ lists[orders[p2].children] = <<c>>
           /\ orders[c].parentId = orders[p2].orderId
           /\ orders[c].parentId # orders[p1].orderId

\* C10: for a trade whose status is one of the five named statuses, is_done
\* and is_active are never both true; is_done holds exactly for Filled and
\* Cancelled, is_active exactly for PendingSubmit and Submitted, and both
\* are false exactly for Inactive.
C10_DoneActiveClassification ==
    (trade # None /\ trade[1].status \in FiveStatuses) =>
        /\ ~(is_done(trade[1]) /\ is_active(trade[1]))
        /\ is_done(trade[1]) <=> trade[1].status \in {Filled, Cancelled}
        /\ is_active(trade[1]) <=> trade[1].status \in {PendingSubmit, Submitted}
        /\ (~is_done(trade[1]) /\ ~is_active(trade[1])) <=> trade[1].status = Inactive

\* C10 witness: a trade that was Filled with a fill recorded and is now
\* Inactive, neither done nor active.
C10_Witness ==
    /\ trade # None
    /\ trade[1].status = Inactive
    /\ Len(trade[1].fills) = 1
    /\ trade[1].filled = MaxShares
    /\ ~is_done(trade[1])
    /\ ~is_active(trade[1])

\* C11: from any of the five statuses an assignment of any of the five
\* statuses is accepted, and right after it is_done and is_active are the
\* values the new status alone determines, whatever the earlier status, the
\* fills and filled/remaining are; the assignment changes nothing else.
C11_AnyTransitionAccepted ==
    /\ [](trade # None => \A s \in FiveStatuses : ENABLED AssignStatus(s))
    /\ [][\A s \in FiveStatuses :
              AssignStatus(s) =>
                  /\ trade'[1].status = s
                  /\ is_done(trade'[1]) = (s \in {Filled, Cancelled})
                  /\ is_active(trade'[1]) = (s \in {PendingSubmit, Submitted})
                  /\ trade'[1].filled = trade[1].filled
                  /\ trade'[1].remaining = trade[1].remaining
                  /\ trade'[1].fills = trade[1].fills]_vars

\* C11 witness: a Filled trade, fully filled with its fill recorded, was
\* assigned Submitted: is_done, true before, is false again.
C11_Witness ==
    /\ trade # None
    /\ trade[1].prev = Some(Filled)
    /\ trade[1].status = Submitted
    /\ Len(trade[1].fills) = 1
    /\ trade[1].filled = MaxShares
    /\ trade[1].remaining = 0
    /\ ~is_done(trade[1])
    /\ is_active(trade[1])

\* C12: every order that exists, of any class, has totalQuantity > 0 (a
\* construction with totalQuantity <= 0 is rejected).
C12_QuantityPositive ==
    \A i \in 1 .. Len(orders) : orders[i].totalQuantity > 0

\* The six variants and the canonical orderType token of each.
Variants ==
    {"MarketOrder", "LimitOrder", "StopOrder", "StopLimitOrder",
     "TrailingStopMarket", "TrailingStopLimit"}

CanonicalToken(cls) ==
    CASE cls = "MarketOrder" -> "MKT"
      [] cls = "LimitOrder" -> "LMT"
      [] cls = "StopOrder" -> "STP"
      [] cls = "StopLimitOrder" -> "STP LMT"
      [] cls = "TrailingStopMarket" -> "TRAIL"
      [] cls = "TrailingStopLimit" -> "TRAIL LIMIT"

\* C13: in every reachable state the orderType of a variant instance is its
\* canonical token, whatever keywords its constructor was given and whatever
\* was assigned afterwards.
C13_OrderTypeCanonical ==
    \A i \in 1 .. Len(orders) :
        orders[i].cls \in Variants => orders[i].orderType = CanonicalToken(orders[i].cls)

\* C14: no assignment to open/high/low/close takes a bar that satisfies
\* high >= low, high >= open, high >= close, low <= open, low <= close to a
\* bar that does not.
C14_BarStaysValid ==
    [][(bar.obj # None /\ bar'.op = "assign" /\ OhlcRelations(bar.obj[1])) =>
           OhlcRelations(bar'.obj[1])]_vars

\* C15: a successfully constructed trailing order starts with stopPrice and
\* extremePrice None; afterwards every assignment of a number to stopPrice or
\* extremePrice succeeds and changes only that field of that instance.
C15_PriceAssignmentsSucceed ==
    [][/\ \A cls \in TrailingClasses, td \in TrailInputs :
              (Len(orders) < MaxNodes /\ Construct(cls, 0, td, None)
                  /\ result'.err = NoError) =>
                  /\ orders'[Len(orders')].stopPrice = None
                  /\ orders'[Len(orders')].extremePrice = None
       /\ \A i \in 1 .. Len(orders), v \in PriceInputs,
             f \in {"stopPrice", "extremePrice"} :
              (orders[i].cls \in TrailingClasses /\ Assign(i, f, v)) =>
                  /\ result'.err = NoError
                  /\ orders' = [orders EXCEPT ![i][f] = v]
                  /\ lists' = lists
                  /\ next_order_id' = next_order_id]_vars

\* The constructions so far ran one after the other: each began when all the
\* instances before it were complete.
Sequential == \A j \in 1 .. Len(began) : began[j] = j - 1

\* C16: the read of the counter and its increment are separate steps with no
\* lock; auto-assigned ids are unique when the constructions run one after
\* the other (the k-th receives id k), and only then: two overlapping
\* constructions can receive the same id.
C16_UniqueWhenSequential ==
    Sequential =>
        /\ \A j \in 1 .. Len(orders) : orders[j].orderId = j
        /\ \A i \in 1 .. Len(orders), j \in 1 .. Len(orders) :
               i # j => orders[i].orderId # orders[j].orderId

\* C16 witness: two constructions overlapped (the second began before the
\* first was complete), both have returned, and both orders have orderId 1.
C16_Witness ==
    /\ Busy = {}
    /\ Len(orders) = 2
    /\ began = <<0, 0>>
    /\ given = <<0, 0>>
    /\ orders[1].orderId = 1
    /\ orders[2].orderId = 1

====
